---- MODULE Spec2Model ----
(***************************************************************************)
(* Model of the rekognition-ci-pipeline repository:                        *)
(*   src/lambda/lambda_handler.py  the fault-isolating S3-event handler    *)
(*   src/lambda_handler.py         the plain S3-event handler              *)
(*   src/analyze_image.py          the batch driver (main)                 *)
(* The three programs are separate processes; each has its own             *)
(* specification (Spec, SpecPlain, SpecBatch) over the same variables.     *)
(* The collaborators (S3, Rekognition, DynamoDB, the wall clock) are the   *)
(* environment: every call to one picks its outcome nondeterministically   *)
(* and is appended to the call log `calls`.                                *)
(***************************************************************************)
EXTENDS Integers, Sequences, FiniteSets, TLC

VARIABLES
    pc,       \* position of the running program
    event,    \* the notification payload handed to the handler
    env,      \* the process environment (BRANCH_HINT / GITHUB_REF_NAME)
    bucket,   \* local `bucket`
    key,      \* local `key`
    resp,     \* local `resp`: the labeling response
    labels,   \* local `labels`
    item,     \* local `item`
    result,   \* how the invocation ended: a returned value or a raised exception
    calls,    \* every collaborator call issued so far, in order, with its outcome
    table,    \* the items whose put_item took effect
    now,      \* the wall clock, in half seconds after ClockBase
    files,    \* batch driver: the matching files, in listing order
    listing,  \* batch driver: what images_dir.glob("*") yielded
    idx       \* batch driver: index of the file being processed

vars == <<pc, event, env, bucket, key, resp, labels, item, result, calls,
          table, now, files, listing, idx>>

-----------------------------------------------------------------------------
(* Bounds of the model *)

\* longest Labels sequence a labeling response carries
MaxResponseLabels == 2
\* largest clock reading, in half seconds after ClockBase
MaxTicks == 2
\* most entries images/ holds
MaxFiles == 2

-----------------------------------------------------------------------------
(* Python values *)

\* a dict with no keys (and the empty list)
EmptyDict == <<>>

\* `k in d` for a dict d
Has(d, k) == k \in DOMAIN d

\* the value of an invocation that has not ended / a local not yet bound
None == [none |-> TRUE]

\* outcomes of a collaborator call: it returns, it raises
\* botocore.exceptions.ClientError (the service answered with an error), or
\* it raises something else (botocore's BotoCoreError family: connection
\* errors, timeouts, parameter validation)
CallOutcomes == {"ok", "ClientError", "OtherError"}

Returned(v) == [kind |-> "return", value |-> v]
Raised(e) == [kind |-> "raise", exc |-> e]

-----------------------------------------------------------------------------
(* urllib.parse.unquote_plus on a string, a sequence of characters *)

HexDigits == {"2", "5", "F"}

HexVal(c) == CASE c = "2" -> 2 [] c = "5" -> 5 [] c = "F" -> 15

\* the character of a decoded byte; a byte that is no valid UTF-8 on its
\* own decodes to U+FFFD (errors='replace')
Chr(code) ==
    CASE code = 34 -> "\""
      [] code = 37 -> "%"
      [] code = 47 -> "/"
      [] code = 82 -> "R"
      [] code = 85 -> "U"
      [] code = 95 -> "_"
      [] OTHER -> "U+FFFD"

RECURSIVE unquote(_)
unquote(s) ==
    IF s = <<>> THEN <<>>
    ELSE IF /\ Head(s) = "%"
            /\ Len(s) >= 3
            /\ s[2] \in HexDigits
            /\ s[3] \in HexDigits
         THEN <<Chr(16 * HexVal(s[2]) + HexVal(s[3]))>>
                  \o unquote(SubSeq(s, 4, Len(s)))
         ELSE <<Head(s)>> \o unquote(Tail(s))

unquote_plus(s) == unquote([i \in DOMAIN s |-> IF s[i] = "+" THEN " " ELSE s[i]])

-----------------------------------------------------------------------------
(* The wall clock and iso_now *)

SecondsPerDay == 24 * 60 * 60

\* 2025-12-31T23:59:59Z, so that the modelled readings cross a second, a
\* day, a month and a year
ClockBase == 20454 * SecondsPerDay - 1

\* time.time() truncated by int(), and utcnow() with microsecond=0: the
\* whole epoch second of clock reading t
EpochSecond(t) == ClockBase + (t \div 2)

\* the civil date of a day number (days since 1970-01-01)
CivilFromDays(days) ==
    LET z == days + 719468
        era == z \div 146097
        doe == z - era * 146097
        yoe == (doe - doe \div 1460 + doe \div 36524 - doe \div 146096) \div 365
        doy == doe - (365 * yoe + yoe \div 4 - yoe \div 100)
        mp == (5 * doy + 2) \div 153
        d == doy - (153 * mp + 2) \div 5 + 1
        m == IF mp < 10 THEN mp + 3 ELSE mp - 9
        y == yoe + era * 400 + (IF m <= 2 THEN 1 ELSE 0)
    IN  [year |-> y, month |-> m, day |-> d]

DigitChar(d) == <<"0", "1", "2", "3", "4", "5", "6", "7", "8", "9">>[d + 1]

RECURSIVE Pad(_, _)
\* n written in w decimal digits, zero padded
Pad(n, w) == IF w = 0 THEN <<>> ELSE Pad(n \div 10, w - 1) \o <<DigitChar(n % 10)>>

\* datetime.isoformat() of the whole second s, with "Z" appended
IsoFormat(s) ==
    LET c == CivilFromDays(s \div SecondsPerDay)
        r == s % SecondsPerDay
    IN  Pad(c.year, 4) \o <<"-">> \o Pad(c.month, 2) \o <<"-">> \o Pad(c.day, 2)
          \o <<"T">> \o Pad(r \div 3600, 2) \o <<":">> \o Pad((r % 3600) \div 60, 2)
          \o <<":">> \o Pad(r % 60, 2) \o <<"Z">>

iso_now(t) == IsoFormat(EpochSecond(t))

-----------------------------------------------------------------------------
(* Labeling responses and their normalisation *)

\* Confidence values are in thousandths: 91236 is 91.236, 70125 is 70.125.
\* an entry of Labels: well formed, or missing Name, Confidence or both
LabelEntries ==
    {[Name |-> "Shoe", Confidence |-> 91236], [Name |-> "Cat", Confidence |-> 70125],
     [Name |-> "Shoe"], [Confidence |-> 70125], EmptyDict}

RECURSIVE SeqsUpTo(_, _)
SeqsUpTo(S, n) ==
    IF n = 0 THEN {<<>>}
    ELSE LET shorter == SeqsUpTo(S, n - 1)
         IN  shorter \cup {Append(s, x) : s \in shorter, x \in S}

\* what detect_labels can return: a dict with a Labels list, or without one
Responses == {[Labels |-> l] : l \in SeqsUpTo(LabelEntries, MaxResponseLabels)} \cup {EmptyDict}

\* round(float(conf), 2) of a confidence in thousandths, in hundredths.  A
\* tie is rounded to even; the ties in Confidences (x.125) are exact in
\* binary, so the float decides nothing.
Round2(c) ==
    LET q == c \div 10
        r == c % 10
    IN  IF r < 5 THEN q
        ELSE IF r > 5 THEN q + 1
        ELSE IF q % 2 = 0 THEN q ELSE q + 1

\* the LabelRecord of a well-formed entry: Decimal(str(round(float(conf), 2)))
LabelRecord(lbl) == [Name |-> lbl.Name, Confidence |-> Round2(lbl.Confidence)]

RECURSIVE build_labels_of(_)
build_labels_of(ls) ==
    IF ls = <<>> THEN <<>>
    ELSE IF ~Has(Head(ls), "Name") \/ ~Has(Head(ls), "Confidence")
         THEN build_labels_of(Tail(ls))
         ELSE <<LabelRecord(Head(ls))>> \o build_labels_of(Tail(ls))

\* build_labels(resp): resp.get("Labels", []) or [], then the loop
build_labels(r) == build_labels_of(IF Has(r, "Labels") THEN r.Labels ELSE <<>>)

-----------------------------------------------------------------------------
(* Notification payloads and the environment *)

\* object keys as S3 notifications carry them: plain, percent-encoded,
\* with a plus sign, doubly encoded, with a truncated escape
Keys ==
    { <<"a">>,
      <<"a", "/", "x">>,
      <<"a", "%", "2", "F", "x">>,
      <<"a", "+", "x">>,
      <<"%", "2", "5", "2", "F">>,
      <<"a", "%", "2">> }

S3Record(b, k) == [s3 |-> [bucket |-> [name |-> b], object |-> [key |-> k]]]

WellFormedEvents ==
    {[Records |-> <<S3Record("b", k)>>] : k \in Keys}
      \cup {[Records |-> <<S3Record("b", <<"a", "%", "2", "F", "x">>),
                           S3Record("c", <<"a">>)>>]}

MalformedEvents ==
    { EmptyDict,
      [Other |-> "x"],
      [Records |-> <<>>],
      [Records |-> <<EmptyDict>>],
      [Records |-> <<[s3 |-> EmptyDict]>>],
      [Records |-> <<[s3 |-> [bucket |-> [name |-> "b"]]]>>],
      [Records |-> <<[s3 |-> [object |-> [key |-> <<"a">>]]]>>],
      [Records |-> <<[s3 |-> [bucket |-> EmptyDict, object |-> [key |-> <<"a">>]]]>>],
      [Records |-> <<[s3 |-> [bucket |-> [name |-> "b"], object |-> EmptyDict]]>>] }

Events == WellFormedEvents \cup MalformedEvents

\* whether event["Records"][0], rec["s3"]["bucket"]["name"] and
\* rec["s3"]["object"]["key"] all evaluate (no KeyError, no IndexError)
CanParse(e) ==
    /\ Has(e, "Records")
    /\ Len(e.Records) >= 1
    /\ Has(e.Records[1], "s3")
    /\ Has(e.Records[1].s3, "bucket")
    /\ Has(e.Records[1].s3.bucket, "name")
    /\ Has(e.Records[1].s3, "object")
    /\ Has(e.Records[1].s3.object, "key")

RawBucket(e) == e.Records[1].s3.bucket.name
RawKey(e) == e.Records[1].s3.object.key

\* the environment of a deployed function: DDB_TABLE is set (the code
\* requires it), BRANCH_HINT may be
Envs == {[DDB_TABLE |-> "t"], [DDB_TABLE |-> "t", BRANCH_HINT |-> "prod"]}

\* os.environ.get("BRANCH_HINT", dflt)
BranchHint(v, dflt) == IF Has(v, "BRANCH_HINT") THEN v.BRANCH_HINT ELSE dflt

-----------------------------------------------------------------------------
(* The collaborators *)

DetectCall(b, k, o) ==
    [op |-> "detect_labels", Bucket |-> b, Name |-> k, MaxLabels |-> 10,
     MinConfidence |-> 70, outcome |-> o]
PutCall(it, o) == [op |-> "put_item", Item |-> it, outcome |-> o]
UploadCall(b, k, o) == [op |-> "upload_file", Bucket |-> b, Key |-> k, outcome |-> o]

\* the table after a put_item that took effect: last write wins, by filename
PutItem(t, it) == {x \in t : x.filename # it.filename} \cup {it}

\* the wall clock moves on its own, forwards or (a clock step) backwards,
\* while a program runs
ClockStep ==
    /\ pc \notin {"idle", "done"}
    /\ \E t \in 0..MaxTicks : t # now /\ now' = t
    /\ UNCHANGED <<pc, event, env, bucket, key, resp, labels, item, result,
                   calls, table, files, listing, idx>>

Init ==
    /\ pc = "idle"
    /\ event = None
    /\ env = None
    /\ bucket = None
    /\ key = None
    /\ resp = None
    /\ labels = None
    /\ item = None
    /\ result = None
    /\ calls = <<>>
    /\ table = {}
    /\ now = 0
    /\ files = <<>>
    /\ listing = <<>>
    /\ idx = 0

\* the runtime invokes handler(event, context)
Invoke ==
    /\ pc = "idle"
    /\ \E e \in Events, v \in Envs : event' = e /\ env' = v
    /\ pc' = "parse"
    /\ UNCHANGED <<bucket, key, resp, labels, item, result, calls, table, now,
                   files, listing, idx>>

-----------------------------------------------------------------------------
(* src/lambda/lambda_handler.py: handler *)

TtlWindow == 7 * SecondsPerDay

BadEvent == [ok |-> FALSE, error |-> "bad_event"]
RekognitionFailed == [ok |-> FALSE, error |-> "rekognition_failed"]
DdbFailed == [ok |-> FALSE, error |-> "ddb_failed"]
Success(k, ls) == [ok |-> TRUE, filename |-> k, count |-> Len(ls)]

\* the key the handler binds to `key` at parse time
ParsedKey(e) == unquote_plus(RawKey(e))

\* LambdaParse without its try block: a malformed payload raises
LambdaParseUnguarded ==
    /\ pc = "parse"
    /\ IF CanParse(event)
       THEN /\ bucket' = RawBucket(event)
            /\ key' = ParsedKey(event)
            /\ pc' = "detect"
            /\ UNCHANGED result
       ELSE /\ result' = Raised("KeyError")
            /\ pc' = "done"
            /\ UNCHANGED <<bucket, key>>
    /\ UNCHANGED <<event, env, resp, labels, item, calls, table, now, files,
                   listing, idx>>

\* lines 53-65: the try block around the parse
LambdaParse ==
    /\ pc = "parse"
    /\ IF CanParse(event)
       THEN /\ bucket' = RawBucket(event)
            /\ key' = ParsedKey(event)
            /\ pc' = "detect"
            /\ UNCHANGED result
       ELSE /\ result' = Returned(BadEvent)
            /\ pc' = "done"
            /\ UNCHANGED <<bucket, key>>
    /\ UNCHANGED <<event, env, resp, labels, item, calls, table, now, files,
                   listing, idx>>

\* what the handler does with a detect_labels that raised exception class o
\* (lines 74-81: only ClientError is caught)
DetectFailure(o) == IF o = "ClientError" THEN Returned(RekognitionFailed) ELSE Raised(o)

\* lines 68-81: the call to rek.detect_labels
LambdaDetect ==
    /\ pc = "detect"
    /\ \E o \in CallOutcomes :
         /\ calls' = Append(calls, DetectCall(bucket, key, o))
         /\ IF o = "ok"
            THEN /\ \E r \in Responses : resp' = r
                 /\ pc' = "build"
                 /\ UNCHANGED result
            ELSE /\ result' = DetectFailure(o)
                 /\ pc' = "done"
                 /\ UNCHANGED resp
    /\ UNCHANGED <<event, env, bucket, key, labels, item, table, now, files,
                   listing, idx>>

\* lines 83-90: labels = build_labels(resp) and the item, timestamp = iso_now()
LambdaBuildItem ==
    /\ pc = "build"
    /\ labels' = build_labels(resp)
    /\ item' = [filename |-> key,
                labels |-> labels',
                timestamp |-> iso_now(now),
                branch |-> BranchHint(env, "Lambda")]
    /\ pc' = "ttl"
    /\ UNCHANGED <<event, env, bucket, key, resp, result, calls, table, now,
                   files, listing, idx>>

\* int(time.time()) + 7 * 24 * 60 * 60 at clock reading t
TtlAt(t) == EpochSecond(t) + TtlWindow

\* line 92: item["ttl"] = ...
LambdaStampTtl ==
    /\ pc = "ttl"
    /\ item' = [filename |-> item.filename,
                labels |-> item.labels,
                timestamp |-> item.timestamp,
                branch |-> item.branch,
                ttl |-> TtlAt(now)]
    /\ pc' = "put"
    /\ UNCHANGED <<event, env, bucket, key, resp, labels, result, calls, table,
                   now, files, listing, idx>>

\* line 93: ddb.put_item(Item=item), outside any try block
LambdaPutFirst ==
    /\ pc = "put"
    /\ \E o \in CallOutcomes :
         /\ calls' = Append(calls, PutCall(item, o))
         /\ IF o = "ok"
            THEN /\ table' = PutItem(table, item)
                 /\ pc' = "persist"
                 /\ UNCHANGED result
            ELSE /\ result' = Raised(o)
                 /\ pc' = "done"
                 /\ UNCHANGED table
    /\ UNCHANGED <<event, env, bucket, key, resp, labels, item, now, files,
                   listing, idx>>

\* what the handler does with the guarded put_item that raised exception
\* class o (lines 106-113: only ClientError is caught)
PersistFailure(o) == IF o = "ClientError" THEN Returned(DdbFailed) ELSE Raised(o)

\* lines 104-115: the try block around the second ddb.put_item, and the return
LambdaPersist ==
    /\ pc = "persist"
    /\ \E o \in CallOutcomes :
         /\ calls' = Append(calls, PutCall(item, o))
         /\ IF o = "ok"
            THEN /\ table' = PutItem(table, item)
                 /\ result' = Returned(Success(key, labels))
            ELSE /\ result' = PersistFailure(o)
                 /\ UNCHANGED table
    /\ pc' = "done"
    /\ UNCHANGED <<event, env, bucket, key, resp, labels, item, now, files,
                   listing, idx>>

Next ==
    \/ Invoke
    \/ ClockStep
    \/ LambdaParse
    \/ LambdaDetect
    \/ LambdaBuildItem
    \/ LambdaStampTtl
    \/ LambdaPutFirst
    \/ LambdaPersist

Spec == Init /\ [][Next]_vars

-----------------------------------------------------------------------------
(* src/lambda_handler.py: handler, and the label list both it and the    *)
(* batch driver build inline                                              *)

\* every entry has l["Name"] and l["Confidence"]: the comprehension
\* evaluates without KeyError
AllSubscriptable(ls) == \A i \in DOMAIN ls : Has(ls[i], "Name") /\ Has(ls[i], "Confidence")

\* resp.get("Labels", [])
LabelsOf(r) == IF Has(r, "Labels") THEN r.Labels ELSE <<>>

\* [{"Name": l["Name"], "Confidence": Decimal(str(round(l["Confidence"], 2)))}
\*  for l in resp.get("Labels", [])], when it evaluates
InlineLabels(r) == [i \in DOMAIN LabelsOf(r) |-> LabelRecord(LabelsOf(r)[i])]

\* the exception event["Records"][0]... raises on a payload that cannot be parsed
ParseError(e) == IF Has(e, "Records") /\ e.Records = <<>> THEN "IndexError" ELSE "KeyError"

\* lines 15-17: no try block, and the key is taken as it comes
PlainParse ==
    /\ pc = "parse"
    /\ IF CanParse(event)
       THEN /\ bucket' = RawBucket(event)
            /\ key' = RawKey(event)
            /\ pc' = "detect"
            /\ UNCHANGED result
       ELSE /\ result' = Raised(ParseError(event))
            /\ pc' = "done"
            /\ UNCHANGED <<bucket, key>>
    /\ UNCHANGED <<event, env, resp, labels, item, calls, table, now, files,
                   listing, idx>>

\* lines 20-23: whatever detect_labels raises leaves the handler
PlainDetect ==
    /\ pc = "detect"
    /\ \E o \in CallOutcomes :
         /\ calls' = Append(calls, DetectCall(bucket, key, o))
         /\ IF o = "ok"
            THEN /\ \E r \in Responses : resp' = r
                 /\ pc' = "build"
                 /\ UNCHANGED result
            ELSE /\ result' = Raised(o)
                 /\ pc' = "done"
                 /\ UNCHANGED resp
    /\ UNCHANGED <<event, env, bucket, key, labels, item, table, now, files,
                   listing, idx>>

\* lines 24-42: the label list, the item and its log line (to_plain makes
\* the Decimals floats, so json.dumps accepts it)
PlainBuildItem ==
    /\ pc = "build"
    /\ IF AllSubscriptable(LabelsOf(resp))
       THEN /\ labels' = InlineLabels(resp)
            /\ item' = [filename |-> key,
                        labels |-> labels',
                        timestamp |-> iso_now(now),
                        branch |-> BranchHint(env, "lambda")]
            /\ pc' = "put"
            /\ UNCHANGED result
       ELSE /\ result' = Raised("KeyError")
            /\ pc' = "done"
            /\ UNCHANGED <<labels, item>>
    /\ UNCHANGED <<event, env, bucket, key, resp, calls, table, now, files,
                   listing, idx>>

\* lines 45-46: the one put_item and the return
PlainPersist ==
    /\ pc = "put"
    /\ \E o \in CallOutcomes :
         /\ calls' = Append(calls, PutCall(item, o))
         /\ IF o = "ok"
            THEN /\ table' = PutItem(table, item)
                 /\ result' = Returned(Success(item.filename, labels))
            ELSE /\ result' = Raised(o)
                 /\ UNCHANGED table
    /\ pc' = "done"
    /\ UNCHANGED <<event, env, bucket, key, resp, labels, item, now, files,
                   listing, idx>>

NextPlain ==
    \/ Invoke
    \/ ClockStep
    \/ PlainParse
    \/ PlainDetect
    \/ PlainBuildItem
    \/ PlainPersist

SpecPlain == Init /\ [][NextPlain]_vars

-----------------------------------------------------------------------------
(* src/analyze_image.py: main *)

\* entries images/ may hold: a path is its stem and its suffix
Paths ==
    { [stem |-> "a", suffix |-> ".jpg"],
      [stem |-> "b", suffix |-> ".JPEG"],
      [stem |-> "c", suffix |-> ".Png"],
      [stem |-> "e", suffix |-> ".txt"],
      [stem |-> "f", suffix |-> ""] }

\* str.lower() on the suffixes of Paths
Lower(x) == CASE x = ".JPEG" -> ".jpeg" [] x = ".Png" -> ".png" [] OTHER -> x

\* what images_dir.glob("*") may yield: entries of one directory, each once,
\* in any order
Listings == {l \in SeqsUpTo(Paths, MaxFiles) : \A i, j \in DOMAIN l : i # j => l[i] # l[j]}

\* the allow-list as a substring test: "" passes it
MatchesSubstring(p) == Lower(p.suffix) \in {".jpg", ".jpeg", ".png", ""}

\* line 18: p.suffix.lower() in {".jpg", ".jpeg", ".png"}
Matches(p) == Lower(p.suffix) \in {".jpg", ".jpeg", ".png"}

\* lines 24 and 42: f"rekognition-input/{path.name}"
KeyOf(p) == <<"rekognition-input/", p.stem, p.suffix>>

\* the environment of the batch run: GITHUB_REF_NAME may be set
BatchEnvs == {EmptyDict, [GITHUB_REF_NAME |-> "main"]}

\* os.environ.get("GITHUB_REF_NAME", "unknown")
RefName(v) == IF Has(v, "GITHUB_REF_NAME") THEN v.GITHUB_REF_NAME ELSE "unknown"

\* lines 8-21: the environment, the listing, the filter and the early return
MainStart ==
    /\ pc = "idle"
    /\ \E l \in Listings, v \in BatchEnvs :
         /\ listing' = l
         /\ env' = v
         /\ files' = SelectSeq(l, Matches)
    /\ IF files' = <<>>
       THEN pc' = "done" /\ result' = Returned(None) /\ idx' = 0
       ELSE pc' = "upload" /\ result' = result /\ idx' = 1
    /\ UNCHANGED <<event, bucket, key, resp, labels, item, calls, table, now>>

\* lines 24-26: the key and s3.upload_file
MainUpload ==
    /\ pc = "upload"
    /\ key' = KeyOf(files[idx])
    /\ \E o \in CallOutcomes :
         /\ calls' = Append(calls, UploadCall("bucket", key', o))
         /\ IF o = "ok"
            THEN pc' = "detect" /\ UNCHANGED result
            ELSE pc' = "done" /\ result' = Raised(o)
    /\ UNCHANGED <<event, env, bucket, resp, labels, item, table, now, files,
                   listing, idx>>

\* lines 29-33: rek.detect_labels
MainDetect ==
    /\ pc = "detect"
    /\ \E o \in CallOutcomes :
         /\ calls' = Append(calls, DetectCall("bucket", key, o))
         /\ IF o = "ok"
            THEN /\ \E r \in Responses : resp' = r
                 /\ pc' = "build"
                 /\ UNCHANGED result
            ELSE /\ result' = Raised(o)
                 /\ pc' = "done"
                 /\ UNCHANGED resp
    /\ UNCHANGED <<event, env, bucket, key, labels, item, table, now, files,
                   listing, idx>>

\* line 47: json.dumps(item) accepts the item only when it holds no Decimal
JsonSerializable(it) == it.labels = <<>>

\* lines 36-47: the label list, the item and its log line
MainBuildItem ==
    /\ pc = "build"
    /\ IF ~AllSubscriptable(LabelsOf(resp))
       THEN /\ result' = Raised("KeyError")
            /\ pc' = "done"
            /\ UNCHANGED <<labels, item>>
       ELSE /\ labels' = InlineLabels(resp)
            /\ item' = [filename |-> KeyOf(files[idx]),
                        labels |-> labels',
                        timestamp |-> iso_now(now),
                        branch |-> RefName(env)]
            /\ IF JsonSerializable(item')
               THEN pc' = "put" /\ UNCHANGED result
               ELSE pc' = "done" /\ result' = Raised("TypeError")
    /\ UNCHANGED <<event, env, bucket, key, resp, calls, table, now, files,
                   listing, idx>>

\* MainPut with the failure of put_item swallowed: the loop goes on
MainPutSwallow ==
    /\ pc = "put"
    /\ \E o \in CallOutcomes :
         /\ calls' = Append(calls, PutCall(item, o))
         /\ table' = IF o = "ok" THEN PutItem(table, item) ELSE table
    /\ IF idx < Len(files)
       THEN pc' = "upload" /\ idx' = idx + 1 /\ UNCHANGED result
       ELSE pc' = "done" /\ result' = Returned(None) /\ UNCHANGED idx
    /\ UNCHANGED <<event, env, bucket, key, resp, labels, item, now, files, listing>>

\* line 48 and the loop: ddb.put_item, then the next file or the end of main
MainPut ==
    /\ pc = "put"
    /\ \E o \in CallOutcomes :
         /\ calls' = Append(calls, PutCall(item, o))
         /\ IF o = "ok"
            THEN /\ table' = PutItem(table, item)
                 /\ IF idx < Len(files)
                    THEN pc' = "upload" /\ idx' = idx + 1 /\ UNCHANGED result
                    ELSE pc' = "done" /\ result' = Returned(None) /\ UNCHANGED idx
            ELSE /\ result' = Raised(o)
                 /\ pc' = "done"
                 /\ UNCHANGED <<table, idx>>
    /\ UNCHANGED <<event, env, bucket, key, resp, labels, item, now, files, listing>>

NextBatch ==
    \/ MainStart
    \/ ClockStep
    \/ MainUpload
    \/ MainDetect
    \/ MainBuildItem
    \/ MainPut

SpecBatch == Init /\ [][NextBatch]_vars

-----------------------------------------------------------------------------
(* What the claims speak of *)

\* the calls to collaborator operation o, in the order issued
RECURSIVE CallsTo(_, _)
CallsTo(cs, o) ==
    IF cs = <<>> THEN <<>>
    ELSE IF Head(cs).op = o THEN <<Head(cs)>> \o CallsTo(Tail(cs), o)
         ELSE CallsTo(Tail(cs), o)

\* the results section 4.4 allows an invocation to end with
StructuredResults ==
    { [ok |-> FALSE, error |-> e] : e \in {"bad_event", "rekognition_failed", "ddb_failed"} }

IsSuccessResult(v) ==
    /\ DOMAIN v = {"ok", "filename", "count"}
    /\ v.ok = TRUE

\* only service errors (ClientError) have occurred in the calls so far
OnlyServiceErrors == \A i \in DOMAIN calls : calls[i].outcome \in {"ok", "ClientError"}

\* C1: the handler never raises past its own boundary: every invocation ends
\* by returning {ok: true, filename, count} or {ok: false, error: e} with e
\* one of bad_event, rekognition_failed, ddb_failed.  Stated here for the
\* runs in which a collaborator fails, if at all, with a service error.
C1_NeverRaises ==
    (pc = "done" /\ OnlyServiceErrors) =>
        /\ result.kind = "return"
        /\ result.value \in StructuredResults \/ IsSuccessResult(result.value)

\* C2: when parsing and the labeling call succeed and a put_item of the
\* invocation fails, the invocation returns exactly {ok: false, error:
\* "ddb_failed"}.  Stated for a put_item that fails with a service error.
C2_PutFailureIsDdbFailed ==
    (/\ pc = "done"
     /\ CanParse(event)
     /\ \E i \in DOMAIN calls : calls[i].op = "detect_labels" /\ calls[i].outcome = "ok"
     /\ \E i \in DOMAIN calls : calls[i].op = "put_item" /\ calls[i].outcome = "ClientError")
        => result = [kind |-> "return", value |-> [ok |-> FALSE, error |-> "ddb_failed"]]

\* C3: a labeling call that raises yields {ok: false, error:
\* "rekognition_failed"} with no put_item issued, and a put_item is only
\* issued after the invocation's labeling call returned.
C3_DetectFailureIsRekognitionFailed ==
    /\ (/\ pc = "done"
        /\ \E i \in DOMAIN calls : calls[i].op = "detect_labels" /\ calls[i].outcome # "ok")
           => /\ result = [kind |-> "return",
                           value |-> [ok |-> FALSE, error |-> "rekognition_failed"]]
              /\ CallsTo(calls, "put_item") = <<>>
    /\ \A i \in DOMAIN calls :
          calls[i].op = "put_item" =>
              \E j \in 1..(i - 1) : calls[j].op = "detect_labels" /\ calls[j].outcome = "ok"

\* the payload has no Records, no Records[0], or a Records[0] without
\* s3.bucket.name or s3.object.key
LacksBucketOrKey(e) ==
    \/ "Records" \notin DOMAIN e
    \/ e.Records = <<>>
    \/ LET rec == e.Records[1]
       IN  \/ "s3" \notin DOMAIN rec
           \/ "bucket" \notin DOMAIN rec.s3
           \/ "name" \notin DOMAIN rec.s3.bucket
           \/ "object" \notin DOMAIN rec.s3
           \/ "key" \notin DOMAIN rec.s3.object

\* C4: a payload missing Records, or whose Records[0] lacks s3.bucket.name
\* or s3.object.key, ends the invocation with {ok: false, error:
\* "bad_event"} and without any call to detect_labels or put_item.
C4_BadEventNoCalls ==
    (pc \notin {"idle", "parse"} /\ LacksBucketOrKey(event)) =>
        /\ pc = "done"
        /\ result = [kind |-> "return", value |-> [ok |-> FALSE, error |-> "bad_event"]]
        /\ calls = <<>>

\* a payload without Records has been handled
C4_Witness ==
    /\ pc = "done"
    /\ "Records" \notin DOMAIN event
    /\ result = [kind |-> "return", value |-> [ok |-> FALSE, error |-> "bad_event"]]

\* C10: an invocation issues at most one put_item: exactly one when it
\* returns {ok: true, ...}, and none that took effect when it returns
\* {ok: false, ...}.
C10_SinglePut ==
    /\ Len(CallsTo(calls, "put_item")) <= 1
    /\ (pc = "done" /\ result.kind = "return") =>
          IF result.value.ok
          THEN Len(CallsTo(calls, "put_item")) = 1
          ELSE table = {}

\* the value of a decimal digit character
DigitVal(c) == CHOOSE d \in 0..9 : DigitChar(d) = c

RECURSIVE Number(_)
\* the number a sequence of digit characters writes
Number(ds) == IF ds = <<>> THEN 0 ELSE 10 * Number(SubSeq(ds, 1, Len(ds) - 1)) + DigitVal(ds[Len(ds)])

\* the day number (days since 1970-01-01) of a civil date
DaysFromCivil(y, m, d) ==
    LET yy == IF m <= 2 THEN y - 1 ELSE y
        era == yy \div 400
        yoe == yy - era * 400
        doy == (153 * (IF m > 2 THEN m - 3 ELSE m + 9) + 2) \div 5 + d - 1
        doe == yoe * 365 + yoe \div 4 - yoe \div 100 + doy
    IN  era * 146097 + doe - 719468

\* the epoch second a timestamp YYYY-MM-DDTHH:MM:SSZ denotes
EpochOfTimestamp(ts) ==
    DaysFromCivil(Number(SubSeq(ts, 1, 4)), Number(SubSeq(ts, 6, 7)), Number(SubSeq(ts, 9, 10)))
        * SecondsPerDay
      + Number(SubSeq(ts, 12, 13)) * 3600
      + Number(SubSeq(ts, 15, 16)) * 60
      + Number(SubSeq(ts, 18, 19))

\* iso_now writes the second it read: parsing the timestamp gives it back
IsoNowDenotesItsSecond ==
    \A t \in 0..MaxTicks :
        /\ Len(iso_now(t)) = 20
        /\ EpochOfTimestamp(iso_now(t)) = EpochSecond(t)

\* C7: in every item the handler writes, ttl is the epoch second its
\* timestamp field denotes plus 604800, whatever the clock does between
\* the steps of the invocation.
C7_TtlIsCreationPlusWindow ==
    \A i \in DOMAIN calls :
        calls[i].op = "put_item" =>
            calls[i].Item.ttl = EpochOfTimestamp(calls[i].Item.timestamp) + 604800

\* C6: the key of Records[0] is percent-decoded once at parse time and the
\* decoded key is the one every downstream use sees: the Name given to
\* detect_labels, the filename of the persisted item and the filename of
\* the returned success result; the raw key never reaches a collaborator.
C6_DecodedKeyEverywhere ==
    /\ \A i \in DOMAIN calls :
          /\ calls[i].op = "detect_labels" => calls[i].Name = unquote_plus(RawKey(event))
          /\ calls[i].op = "put_item" => calls[i].Item.filename = unquote_plus(RawKey(event))
    /\ (pc = "done" /\ result.kind = "return" /\ result.value.ok) =>
          result.value.filename = unquote_plus(RawKey(event))

\* an entry of Labels that has both Name and Confidence
WellFormed(lbl) == "Name" \in DOMAIN lbl /\ "Confidence" \in DOMAIN lbl

\* the well-formed entries of a response, in the order of the response
WellFormedEntries(r) == SelectSeq(IF "Labels" \in DOMAIN r THEN r.Labels ELSE <<>>, WellFormed)

\* the label list of the response at hand has been built
LabelsBuilt == pc \in {"ttl", "put", "persist"}

\* the last call issued was a detect_labels that returned
DetectReturnedLast ==
    /\ calls # <<>>
    /\ calls[Len(calls)].op = "detect_labels"
    /\ calls[Len(calls)].outcome = "ok"

\* C5: the label list built from a labeling response is exactly the
\* order-preserved subsequence of its well-formed entries (N well-formed
\* entries give N records in the same order, a malformed entry is left out
\* without affecting the others), and building it raises no exception.
C5_NormalizerContract ==
    /\ LabelsBuilt =>
          /\ Len(labels) = Len(WellFormedEntries(resp))
          /\ \A i \in DOMAIN labels : labels[i].Name = WellFormedEntries(resp)[i].Name
    /\ ~(pc = "done" /\ DetectReturnedLast /\ result = [kind |-> "raise", exc |-> "KeyError"])

\* the suffixes main accepts, in every spelling Paths holds
IsImage(p) == p.suffix \in {".jpg", ".jpeg", ".JPEG", ".png", ".Png"}

\* C8: when no entry of images/ has the suffix .jpg, .jpeg or .png in any
\* letter case, main uploads nothing, detects nothing, writes nothing and
\* ends without error.
C8_NothingToDo ==
    (pc # "idle" /\ \A i \in DOMAIN listing : ~IsImage(listing[i])) =>
        /\ pc = "done"
        /\ result = [kind |-> "return", value |-> None]
        /\ calls = <<>>
        /\ table = {}

\* main has ended over a directory that holds entries, none of them an image
C8_Witness ==
    /\ pc = "done"
    /\ listing # <<>>
    /\ \A i \in DOMAIN listing : ~IsImage(listing[i])
    /\ result = [kind |-> "return", value |-> None]

\* the images of the listing, in listing order
Images == SelectSeq(listing, IsImage)

\* the key the i-th call of a run is about, and the operation it is
CallFile(i) == Images[((i - 1) \div 3) + 1]
CallKey(i) == <<"rekognition-input/", CallFile(i).stem, CallFile(i).suffix>>
CallOp(i) == <<"upload_file", "detect_labels", "put_item">>[((i - 1) % 3) + 1]

\* the key a call names
NamedKey(c) ==
    CASE c.op = "upload_file" -> c.Key
      [] c.op = "detect_labels" -> c.Name
      [] c.op = "put_item" -> c.Item.filename

\* C9: main takes the images one at a time in listing order: per image the
\* calls are upload, detect_labels, put_item under "rekognition-input/" +
\* name, each at most once, a put_item only after the upload and the
\* detection for the same key returned, all calls of one image before any
\* of the next; once a call fails no further call is issued; and the items
\* written for earlier images stay written.
C9_SequentialFailStop ==
    /\ Len(calls) <= 3 * Len(Images)
    /\ \A i \in DOMAIN calls :
          /\ calls[i].op = CallOp(i)
          /\ NamedKey(calls[i]) = CallKey(i)
          /\ i < Len(calls) => calls[i].outcome = "ok"
    /\ (calls # <<>> /\ calls[Len(calls)].outcome # "ok") =>
          pc = "done" /\ result.kind = "raise"
    /\ table = {calls[i].Item : i \in {j \in DOMAIN calls :
                    calls[j].op = "put_item" /\ calls[j].outcome = "ok"}}

\* the first image was written and a call for the second one failed
C9_Witness ==
    /\ pc = "done"
    /\ Len(calls) = 5
    /\ calls[5].outcome # "ok"
    /\ Cardinality(table) = 1

====
